---- MODULE Spec2Model ----
(***************************************************************************)
(* Portfolio API: the FastAPI handlers of main.py over a document store,   *)
(* and the pydantic schemas of schemas.py.                                 *)
(*                                                                         *)
(* Optional[T] values are sequences of length at most one: None is <<>>    *)
(* and a present value v is <<v>>.  Text is kept as strings, so that       *)
(* searching and case folding work on the characters the code sees.        *)
(***************************************************************************)
EXTENDS Integers, Sequences, FiniteSets, TLC

VARIABLES
    db,        \* the process-wide store handle of database.py: "none" or "set"
    store,     \* the document store: collection name -> sequence of documents
    prev,      \* the store as it was when the last completed call started
    last,      \* the last completed call: request, outcome and response
    inflight   \* seed_content invocations in progress (concurrent specification)

vars == <<db, store, prev, last, inflight>>

None == <<>>
Some(v) == <<v>>

(***************************************************************************)
(* Bounds of the model.                                                    *)
(***************************************************************************)
MaxContacts == 1
MaxCollNames == 12

(***************************************************************************)
(* schemas.py                                                              *)
(***************************************************************************)
ProjectDomainsUnspaced ==
    {"ML", "Analytics", "Visualization", "NLP", "CV", "TimeSeries", "MLOps", "Other"}

ProjectDomains ==
    {"ML", "Analytics", "Visualization", "NLP", "CV", "Time Series", "MLOps", "Other"}

PublicationKinds == {"paper", "talk", "workshop"}

ProjectRequired ==
    {"title", "slug", "summary", "domain", "year", "problem", "approach",
     "dataset", "model", "results", "impact"}

ProjectDefaults ==
    [stack |-> <<>>, github_url |-> None, demo_url |-> None, tags |-> <<>>,
     plotly_fig |-> None]

PublicationRequired == {"title", "venue", "year", "authors"}

PublicationDefaults == [link |-> None, slides_url |-> None, kind |-> "paper"]

BlogPostRequired == {"title", "slug", "excerpt", "body", "published_at"}

BlogPostDefaults == [topics |-> <<>>]

ContactMessageRequired == {"name", "email", "message"}

ContactMessageDefaults == [source |-> None]

\* HttpUrl: a scheme of http or https followed by a non-empty host.
HttpUrl(u) ==
    \/ Len(u) > 7 /\ SubSeq(u, 1, 7) = "http://"
    \/ Len(u) > 8 /\ SubSeq(u, 1, 8) = "https://"

OptionalHttpUrl(d, f) == f \in DOMAIN d => (d[f] = None \/ HttpUrl(d[f][1]))

\* Project(**d): the required fields are there, domain is one of the Literal's
\* values, the URLs that are given are well formed.
ValidProject(d) ==
    /\ ProjectRequired \subseteq DOMAIN d
    /\ d.domain \in ProjectDomains
    /\ OptionalHttpUrl(d, "github_url")
    /\ OptionalHttpUrl(d, "demo_url")

ValidPublication(d) ==
    /\ PublicationRequired \subseteq DOMAIN d
    /\ ("kind" \in DOMAIN d => d.kind \in PublicationKinds)
    /\ OptionalHttpUrl(d, "link")
    /\ OptionalHttpUrl(d, "slides_url")

ValidBlogPost(d) == BlogPostRequired \subseteq DOMAIN d

ValidContactMessage(d) == ContactMessageRequired \subseteq DOMAIN d

\* The entity a model's constructor builds from a mapping: the declared fields
\* only, absent ones taking their defaults.
Entity(d, required, defaults) ==
    [k \in required \cup DOMAIN defaults |->
        IF k \in DOMAIN d THEN d[k] ELSE defaults[k]]

Project(d) == Entity(d, ProjectRequired, ProjectDefaults)
Publication(d) == Entity(d, PublicationRequired, PublicationDefaults)
BlogPost(d) == Entity(d, BlogPostRequired, BlogPostDefaults)
ContactMessage(d) == Entity(d, ContactMessageRequired, ContactMessageDefaults)

(***************************************************************************)
(* The sample content of seed_content.                                     *)
(***************************************************************************)
ProjectSamples == <<
    [title |-> "Customer Churn Prediction",
     slug |-> "customer-churn-prediction",
     summary |-> "Predict churn with explainable ML to prioritize retention actions.",
     domain |-> "ML",
     stack |-> <<"Python", "scikit-learn", "XGBoost", "SHAP">>,
     year |-> 2023,
     problem |-> "Identify customers likely to churn in the next 60 days.",
     approach |-> "Feature engineering + gradient boosting with class-weighting and calibration.",
     dataset |-> "Telco churn dataset + proprietary CRM features.",
     model |-> "XGBoost with Bayesian optimization; SHAP for interpretability.",
     results |-> "AUC 0.89, recall 76% at 15% alert rate.",
     impact |-> "Reduced churn by 5.2% in pilot, saving ~$1.1M ARR.",
     github_url |-> Some("https://github.com/"),
     tags |-> <<"classification", "retention", "explainability">>,
     plotly_fig |-> Some(
        [data |-> <<[type |-> "bar",
                     x |-> <<"Contract", "Tenure", "MonthlyCharges">>,
                     y |-> <<"0.34", "0.27", "0.18">>]>>,
         layout |-> [title |-> "Top Features (SHAP)"]])],
    [title |-> "Demand Forecasting with Hierarchical Time Series",
     slug |-> "demand-forecasting-hts",
     summary |-> "Weekly forecasts across 120 SKUs with reconciliation and uncertainty.",
     domain |-> "Time Series",
     stack |-> <<"Python", "Prophet", "statsmodels", "scikit-learn">>,
     year |-> 2022,
     problem |-> "Improve inventory planning across regions and SKUs.",
     approach |-> "Feature-rich SARIMAX + gradient boosting for residuals; hierarchical reconciliation.",
     dataset |-> "Sales transactions 3 years + promo calendar.",
     model |-> "SARIMAX + LightGBM residual model.",
     results |-> "MAPE 8.6% overall; stockouts down 23%.",
     impact |-> "Saved $420k in holding and lost sales.",
     github_url |-> Some("https://github.com/"),
     tags |-> <<"forecasting", "inventory", "hts">>],
    [title |-> "Interactive Mobility Dashboard",
     slug |-> "mobility-dashboard",
     summary |-> "City mobility patterns explored via interactive geovisualizations.",
     domain |-> "Visualization",
     stack |-> <<"Python", "Altair", "Deck.gl">>,
     year |-> 2024,
     problem |-> "Understand peak congestion corridors.",
     approach |-> "Aggregated GPS pings and derived OD matrices; built interactive views.",
     dataset |-> "1.2B GPS pings over 6 months.",
     model |-> "Clustering + KDE for hotspots.",
     results |-> "Revealed 3 critical choke points.",
     impact |-> "Informed signal timing policy saving ~8% commute time.",
     github_url |-> Some("https://github.com/"),
     tags |-> <<"geospatial", "altair", "dashboard">>] >>

PublicationSamples == <<
    [title |-> "Storytelling with Data: From Insight to Impact",
     venue |-> "Global Data Summit",
     year |-> 2024,
     authors |-> <<"Muhamad Juwandi">>,
     slides_url |-> Some("https://slides.com/"),
     kind |-> "talk"],
    [title |-> "Robust ML Pipelines with MLOps",
     venue |-> "PyData",
     year |-> 2023,
     authors |-> <<"Muhamad Juwandi">>,
     slides_url |-> Some("https://slides.com/"),
     kind |-> "workshop"] >>

BlogPostSamples == <<
    [title |-> "Designing Ethical AI Systems",
     slug |-> "ethical-ai",
     excerpt |-> "Principles and practical checklists for responsible ML.",
     body |-> "Long-form body in Markdown or MDX.",
     topics |-> <<"ethics", "ai">>,
     published_at |-> "2024-05-11"],
    [title |-> "Visualization Patterns that Clarify",
     slug |-> "viz-patterns",
     excerpt |-> "Choosing encodings that match mental models.",
     body |-> "Post content...",
     topics |-> <<"viz", "design">>,
     published_at |-> "2024-03-03"],
    [title |-> "From Notebook to Production",
     slug |-> "notebook-to-prod",
     excerpt |-> "A compact guide to MLOps for data scientists.",
     body |-> "Post content...",
     topics |-> <<"mlops", "devops">>,
     published_at |-> "2023-11-18"],
    [title |-> "R + Python for Analytics",
     slug |-> "r-plus-python",
     excerpt |-> "Leverage strengths of both ecosystems.",
     body |-> "Post content...",
     topics |-> <<"r", "python">>,
     published_at |-> "2023-07-07"] >>

(***************************************************************************)
(* The document store behind database.py.                                  *)
(***************************************************************************)
ContentCollections == {"project", "publication", "blogpost"}

Collections == ContentCollections \cup {"contactmessage"}

EmptyStore == [c \in Collections |-> <<>>]

\* insert: the document is appended to its collection under a fresh identifier.
create_document(st, c, data) ==
    [st EXCEPT ![c] = Append(@, ("_id" :> (Len(@) + 1)) @@ data)]

count_documents(st, c) == Len(st[c])

UpperToLower ==
    [c \in {"A", "B", "C", "D", "E", "F", "G", "H", "I", "J", "K", "L", "M",
            "N", "O", "P", "Q", "R", "S", "T", "U", "V", "W", "X", "Y", "Z"} |->
        CASE c = "A" -> "a" [] c = "B" -> "b" [] c = "C" -> "c" [] c = "D" -> "d"
          [] c = "E" -> "e" [] c = "F" -> "f" [] c = "G" -> "g" [] c = "H" -> "h"
          [] c = "I" -> "i" [] c = "J" -> "j" [] c = "K" -> "k" [] c = "L" -> "l"
          [] c = "M" -> "m" [] c = "N" -> "n" [] c = "O" -> "o" [] c = "P" -> "p"
          [] c = "Q" -> "q" [] c = "R" -> "r" [] c = "S" -> "s" [] c = "T" -> "t"
          [] c = "U" -> "u" [] c = "V" -> "v" [] c = "W" -> "w" [] c = "X" -> "x"
          [] c = "Y" -> "y" [] c = "Z" -> "z"]

CharAt(s, i) == SubSeq(s, i, i)

Fold(ch) == IF ch \in DOMAIN UpperToLower THEN UpperToLower[ch] ELSE ch

\* The characters of a text, case folded when ci.
Chars(s, ci) ==
    [i \in 1..Len(s) |-> IF ci THEN Fold(CharAt(s, i)) ELSE CharAt(s, i)]

\* The patterns the model's regex engine reads: literal characters and ".",
\* which stands for any one character.  An unbalanced "(" is no pattern.
RegexCompiles(p) == \A k \in 1..Len(p) : CharAt(p, k) # "("

RegexMatchAt(pc, sc, i) ==
    \A k \in 1..Len(pc) : pc[k] = "." \/ pc[k] = sc[i + k - 1]

\* $regex: the pattern matches somewhere in the text (unanchored search);
\* with the "i" option both sides are compared case folded.
RegexSearch(p, s, ci) ==
    LET pc == Chars(p, ci)
        sc == Chars(s, ci)
    IN  \E i \in 1..(Len(sc) - Len(pc) + 1) : RegexMatchAt(pc, sc, i)

ArrayFields == {"stack", "tags", "authors", "topics"}

\* {field: {"$regex": p, "$options": o}}: on an array field, some element matches.
RegexClause(d, cl) ==
    /\ cl.field \in DOMAIN d
    /\ IF cl.field \in ArrayFields
       THEN \E j \in 1..Len(d[cl.field]) :
                RegexSearch(cl.regex, d[cl.field][j], cl.options = "i")
       ELSE RegexSearch(cl.regex, d[cl.field], cl.options = "i")

\* A filter document: every key must hold; "$or" holds when one clause does.
Matches(d, query) ==
    /\ "domain" \in DOMAIN query =>
           ("domain" \in DOMAIN d /\ d.domain = query.domain)
    /\ "year" \in DOMAIN query => ("year" \in DOMAIN d /\ d.year = query.year)
    /\ "$or" \in DOMAIN query =>
           \E j \in 1..Len(query["$or"]) : RegexClause(d, query["$or"][j])

QueryCompiles(query) ==
    "$or" \in DOMAIN query =>
        \A j \in 1..Len(query["$or"]) : RegexCompiles(query["$or"][j].regex)

get_documents(st, c, query) == SelectSeq(st[c], LAMBDA d : Matches(d, query))

\* {k: v for k, v in d.items() if k != "_id"}
WithoutId(d) == [k \in DOMAIN d \ {"_id"} |-> d[k]]

Bodies(docs) == [i \in 1..Len(docs) |-> WithoutId(docs[i])]

(***************************************************************************)
(* Responses.                                                              *)
(***************************************************************************)
OK == 200
UNPROCESSABLE == 422
SERVER_ERROR == 500

NotConfigured == [detail |-> "Database not configured"]

\* What the framework answers when a handler raises anything but HTTPException.
InternalError == [detail |-> "Internal Server Error"]

\* The record of a completed call: ops counts the store operations it issued,
\* fault tells whether one of them raised, and follows whether the call right
\* before it was a POST /seed that returned its success response.
Respond(endpoint, request, status, body, ops, fault) ==
    [endpoint |-> endpoint, request |-> request, status |-> status,
     body |-> body, ops |-> ops, fault |-> fault,
     follows |-> IF last.endpoint = "seed" /\ last.status = OK
                 THEN "seed_ok" ELSE "other"]

(***************************************************************************)
(* POST /seed, one store operation at a time.  A handler in progress is    *)
(* [stage, i, seen, status, ops]: stage indexes SeedOrder; i = 0 when the  *)
(* next operation counts that collection, i >= 1 when it inserts sample i; *)
(* seen holds the collections whose count came back 0.                     *)
(***************************************************************************)
SeedOrder == <<"project", "publication", "blogpost">>

Samples(c) ==
    CASE c = "project" -> ProjectSamples
      [] c = "publication" -> PublicationSamples
      [] c = "blogpost" -> BlogPostSamples

SeedStart == [stage |-> 1, i |-> 0, seen |-> {}, status |-> "running", ops |-> 0]

Idle == [stage |-> 0, i |-> 0, seen |-> {}, status |-> "idle", ops |-> 0]

SeedOps == Len(SeedOrder) + Len(ProjectSamples) + Len(PublicationSamples)
               + Len(BlogPostSamples)

IsEmptyUnchecked(st, c) == TRUE

IsEmptyOfProject(st, c) == count_documents(st, "project") = 0

IsEmptyOrPartial(st, c) == count_documents(st, c) < Len(Samples(c))

IsEmpty(st, c) == count_documents(st, c) = 0

\* The document a sample is stored as: the Project samples are model
\* instances, the publications and posts are plain mappings.
SampleDocument(c, i) ==
    IF c = "project" THEN Project(Samples(c)[i]) ELSE Samples(c)[i]

\* Building the samples list constructs every Project before any insert.
SamplesConstruct(c) ==
    c = "project" => \A i \in 1..Len(ProjectSamples) : ValidProject(ProjectSamples[i])

NextCollection(h) ==
    IF h.stage = Len(SeedOrder)
    THEN [h EXCEPT !.stage = @ + 1, !.i = 0, !.status = "ok"]
    ELSE [h EXCEPT !.stage = @ + 1, !.i = 0]

Raised(h) == [h EXCEPT !.status = "error"]

\* A handler that looks again before its first insert and skips a collection
\* another invocation has filled in the meantime.
SeedStepRecheck(h, st, fails) ==
    LET c == SeedOrder[h.stage]
        g == [h EXCEPT !.ops = @ + 1]
    IN  IF fails
        THEN [h |-> Raised(g), store |-> st]
        ELSE IF h.i = 0
        THEN IF IsEmpty(st, c)
             THEN IF SamplesConstruct(c)
                  THEN [h |-> [g EXCEPT !.i = 1, !.seen = @ \cup {c}], store |-> st]
                  ELSE [h |-> Raised(g), store |-> st]
             ELSE [h |-> NextCollection(g), store |-> st]
        ELSE IF h.i = 1 /\ ~IsEmpty(st, c)
        THEN [h |-> NextCollection(g), store |-> st]
        ELSE [h |-> IF h.i = Len(Samples(c)) THEN NextCollection(g)
                    ELSE [g EXCEPT !.i = @ + 1],
              store |-> create_document(st, c, SampleDocument(c, h.i))]

SeedStep(h, st, fails) ==
    LET c == SeedOrder[h.stage]
        g == [h EXCEPT !.ops = @ + 1]
    IN  IF fails
        THEN [h |-> Raised(g), store |-> st]
        ELSE IF h.i = 0
        THEN IF IsEmpty(st, c)
             THEN IF SamplesConstruct(c)
                  THEN [h |-> [g EXCEPT !.i = 1, !.seen = @ \cup {c}], store |-> st]
                  ELSE [h |-> Raised(g), store |-> st]
             ELSE [h |-> NextCollection(g), store |-> st]
        ELSE [h |-> IF h.i = Len(Samples(c)) THEN NextCollection(g)
                    ELSE [g EXCEPT !.i = @ + 1],
              store |-> create_document(st, c, SampleDocument(c, h.i))]

\* The handler run to its end; its failAt-th store operation raises (0: none).
RECURSIVE RunSeed(_, _, _)
RunSeed(h, st, failAt) ==
    IF h.status # "running"
    THEN [h |-> h, store |-> st]
    ELSE LET r == SeedStep(h, st, h.ops + 1 = failAt)
         IN  RunSeed(r.h, r.store, failAt)

SeedNotConfigured == db = "none"

seed_content(failAt) ==
    IF SeedNotConfigured
    THEN /\ last' = Respond("seed", None, SERVER_ERROR, NotConfigured, 0, FALSE)
         /\ prev' = store
         /\ UNCHANGED <<db, store, inflight>>
    ELSE LET r == RunSeed(SeedStart, store, failAt)
         IN  /\ store' = r.store
             /\ prev' = store
             /\ last' = IF r.h.status = "ok"
                        THEN Respond("seed", None, OK, [status |-> "ok"], r.h.ops, FALSE)
                        ELSE Respond("seed", None, SERVER_ERROR, InternalError,
                                     r.h.ops, r.h.ops = failAt)
             /\ UNCHANGED <<db, inflight>>

(***************************************************************************)
(* GET /projects, /publications, /blog                                     *)
(***************************************************************************)
Truthy(opt, zero) == opt # None /\ opt[1] # zero

ProjectQueryKeys(domain, year, q) ==
    (IF Truthy(domain, "") THEN {"domain"} ELSE {})
        \cup (IF Truthy(year, 0) THEN {"year"} ELSE {})
        \cup (IF Truthy(q, "") THEN {"$or"} ELSE {})

ProjectQuery(domain, year, q) ==
    [k \in ProjectQueryKeys(domain, year, q) |->
        CASE k = "domain" -> domain[1]
          [] k = "year" -> year[1]
          [] k = "$or" ->
                <<[field |-> "title", regex |-> q[1], options |-> "i"],
                  [field |-> "summary", regex |-> q[1], options |-> "i"],
                  [field |-> "tags", regex |-> q[1], options |-> "i"]>>]

\* The shared shape: no handle, the empty list and no store operation; else
\* one find, and every document coerced to its model without its identifier.
ListNeverUnavailable == FALSE

ListUnavailable == db = "none"

\* The model each list endpoint coerces its documents to.
ValidAs(c, d) ==
    CASE c = "project" -> ValidProject(d)
      [] c = "publication" -> ValidPublication(d)
      [] c = "blogpost" -> ValidBlogPost(d)

ModelAs(c, d) ==
    CASE c = "project" -> Project(d)
      [] c = "publication" -> Publication(d)
      [] c = "blogpost" -> BlogPost(d)

ListResponse(endpoint, request, c, query, fail) ==
    IF ListUnavailable
    THEN Respond(endpoint, request, OK, <<>>, 0, FALSE)
    ELSE IF fail \/ ~QueryCompiles(query)
    THEN Respond(endpoint, request, SERVER_ERROR, InternalError, 1, fail)
    ELSE LET docs == Bodies(get_documents(store, c, query))
         IN  IF \A i \in 1..Len(docs) : ValidAs(c, docs[i])
             THEN Respond(endpoint, request, OK,
                          [i \in 1..Len(docs) |-> ModelAs(c, docs[i])], 1, FALSE)
             ELSE Respond(endpoint, request, SERVER_ERROR, InternalError, 1, FALSE)

list_projects(domain, year, q, fail) ==
    /\ last' = ListResponse("projects", [domain |-> domain, year |-> year, q |-> q],
                            "project", ProjectQuery(domain, year, q), fail)
    /\ prev' = store
    /\ UNCHANGED <<db, store, inflight>>

list_publications(fail) ==
    /\ last' = ListResponse("publications", None, "publication", <<>>, fail)
    /\ prev' = store
    /\ UNCHANGED <<db, store, inflight>>

list_blog(fail) ==
    /\ last' = ListResponse("blog", None, "blogpost", <<>>, fail)
    /\ prev' = store
    /\ UNCHANGED <<db, store, inflight>>

(***************************************************************************)
(* POST /contact                                                           *)
(***************************************************************************)
ContactAlwaysConfigured == FALSE

ContactNotConfigured == db = "none"

ContactDropped(st, msg) == st

ContactPersist(st, msg) == create_document(st, "contactmessage", msg)

submit_contact(payload, fail) ==
    /\ prev' = store
    /\ UNCHANGED <<db, inflight>>
    /\ IF ~ValidContactMessage(payload)
       THEN /\ last' = Respond("contact", payload, UNPROCESSABLE,
                               [detail |-> "validation error"], 0, FALSE)
            /\ UNCHANGED store
       ELSE IF ContactNotConfigured
       THEN /\ last' = Respond("contact", payload, SERVER_ERROR, NotConfigured,
                               0, FALSE)
            /\ UNCHANGED store
       ELSE IF fail
       THEN /\ last' = Respond("contact", payload, SERVER_ERROR, InternalError,
                               1, TRUE)
            /\ UNCHANGED store
       ELSE /\ Len(store["contactmessage"]) < MaxContacts
            /\ store' = ContactPersist(store, ContactMessage(payload))
            /\ last' = Respond("contact", payload, OK, [status |-> "received"],
                               1, FALSE)

(***************************************************************************)
(* GET / and GET /test                                                     *)
(***************************************************************************)
read_root ==
    /\ last' = Respond("root", None, OK, [message |-> "Hello from FastAPI Backend!"],
                       0, FALSE)
    /\ prev' = store
    /\ UNCHANGED <<db, store, inflight>>

CollectionsLimit == 10
ErrorTextLimit == 80

Min(a, b) == IF a < b THEN a ELSE b

TakeAll(xs, n) == xs

\* xs[:n]
Take(xs, n) == SubSeq(xs, 1, Min(n, Len(xs)))

\* listing is what db.list_collection_names() does: it returns names, or it
\* raises an exception whose text has errlen characters.  An error text is
\* carried as its length.
test_database(listing, env) ==
    LET response0 ==
            [backend |-> "Running", database |-> "Not Available",
             database_url |-> None, database_name |-> None,
             connection_status |-> "Not Connected", collections |-> <<>>,
             error_text |-> 0]
        response1 ==
            [response0 EXCEPT
                !.database = "Connected & Working",
                !.database_url = Some(IF env.url THEN "Set" ELSE "Not Set"),
                !.database_name =
                    Some(IF env.dbname # None THEN env.dbname[1]
                         ELSE IF env.name THEN "Set" ELSE "Not Set"),
                !.connection_status = "Connected"]
        response ==
            IF db # "none"
            THEN IF listing.raises
                 THEN [response1 EXCEPT
                          !.database = "Connected but error",
                          !.error_text = Min(listing.errlen, ErrorTextLimit)]
                 ELSE [response1 EXCEPT
                          !.collections = Take(listing.names, CollectionsLimit)]
            ELSE [response0 EXCEPT !.database = "Available but not initialized"]
    IN  /\ last' = Respond("test", [listing |-> listing, env |-> env], OK, response,
                           IF db # "none" THEN 1 ELSE 0,
                           db # "none" /\ listing.raises)
        /\ prev' = store
        /\ UNCHANGED <<db, store, inflight>>

(***************************************************************************)
(* The requests the model sends.                                           *)
(***************************************************************************)
DomainParams == {None, Some(""), Some("ML"), Some("ml")}

YearParams == {None, Some(0), Some(2023)}

QParams == {None, Some("Churn"), Some("hts"), Some("ch.rn"), Some("(")}

ContactPayloads ==
    {[name |-> "Ada", email |-> "not-an-address", message |-> "Hello"],
     [name |-> "Ada", email |-> "ada@example.org"]}

ErrorTextLengths == {0, ErrorTextLimit - 1, ErrorTextLimit, ErrorTextLimit + 1}

Listings ==
    {[raises |-> FALSE, errlen |-> 0,
      names |-> [i \in 1..n |-> "collection_" \o ToString(i)]] :
        n \in {0} \cup (CollectionsLimit - 1)..MaxCollNames}
        \cup {[raises |-> TRUE, errlen |-> n, names |-> <<>>] : n \in ErrorTextLengths}

Environments ==
    {[url |-> TRUE, name |-> TRUE, dbname |-> Some("portfolio")],
     [url |-> TRUE, name |-> TRUE, dbname |-> None],
     [url |-> FALSE, name |-> FALSE, dbname |-> None]}

Start ==
    [endpoint |-> "start", request |-> None, status |-> OK, body |-> None,
     ops |-> 0, fault |-> FALSE, follows |-> "other"]

Workers == {1, 2}

(***************************************************************************)
(* Requests served one after the other, each handler run to its end.       *)
(***************************************************************************)
Init ==
    /\ db \in {"none", "set"}
    /\ store = EmptyStore
    /\ prev = EmptyStore
    /\ last = Start
    /\ inflight = [w \in Workers |-> Idle]

Next ==
    \/ read_root
    \/ \E listing \in Listings, env \in Environments : test_database(listing, env)
    \/ \E failAt \in 0..SeedOps : seed_content(failAt)
    \/ \E domain \in DomainParams, year \in YearParams, q \in QParams :
           list_projects(domain, year, q, FALSE)
    \/ \E domain \in DomainParams : list_projects(domain, None, None, TRUE)
    \/ \E fail \in BOOLEAN : list_publications(fail)
    \/ \E fail \in BOOLEAN : list_blog(fail)
    \/ \E payload \in ContactPayloads, fail \in BOOLEAN : submit_contact(payload, fail)

Spec == Init /\ [][Next]_vars

(***************************************************************************)
(* Two POST /seed requests in flight at once, in workers that share only   *)
(* the store: each step is one store operation of one of them.             *)
(***************************************************************************)
SeedBegin(w) ==
    /\ inflight[w].status = "idle"
    /\ inflight' = [inflight EXCEPT ![w] = IF db = "none" THEN Raised(SeedStart)
                                            ELSE SeedStart]
    /\ UNCHANGED <<db, store, prev, last>>

SeedAdvance(w, fails) ==
    /\ inflight[w].status = "running"
    /\ LET r == SeedStep(inflight[w], store, fails)
       IN  /\ inflight' = [inflight EXCEPT ![w] = r.h]
           /\ store' = r.store
    /\ UNCHANGED <<db, prev, last>>

InitConc ==
    /\ db \in {"none", "set"}
    /\ store = EmptyStore
    /\ prev = EmptyStore
    /\ last = Start
    /\ inflight = [w \in Workers |-> Idle]

NextConc ==
    \/ \E w \in Workers : SeedBegin(w)
    \/ \E w \in Workers, fails \in BOOLEAN : SeedAdvance(w, fails)

SpecConc == InitConc /\ [][NextConc]_vars

(***************************************************************************)
(* The Project model on its own: a mapping is given to the constructor.    *)
(***************************************************************************)
DomainCandidates ==
    {"ML", "Analytics", "Visualization", "NLP", "CV", "Time Series", "TimeSeries",
     "MLOps", "Other", "", "ml", "time series", "Data"}

UrlCandidates == {None, Some("https://github.com/"), Some("github.com")}

Droppable == {"", "title", "year", "domain"}

ProjectPayload(domain, url, drop) ==
    LET full == [ProjectSamples[3] EXCEPT !.domain = domain, !.github_url = url]
    IN  [k \in DOMAIN full \ {drop} |-> full[k]]

ProjectPayloads ==
    {ProjectPayload(domain, url, drop) :
        domain \in DomainCandidates, url \in UrlCandidates, drop \in Droppable}

ConstructProject ==
    /\ last.status = "pending"
    /\ last' = IF ValidProject(last.request)
               THEN [last EXCEPT !.status = "accepted",
                                 !.body = Some(Project(last.request))]
               ELSE [last EXCEPT !.status = "rejected"]
    /\ UNCHANGED <<db, store, prev, inflight>>

InitSchema ==
    /\ db = "none"
    /\ store = EmptyStore
    /\ prev = EmptyStore
    /\ inflight = [w \in Workers |-> Idle]
    /\ \E payload \in ProjectPayloads :
           last = [endpoint |-> "Project", request |-> payload,
                   status |-> "pending", body |-> None, ops |-> 0,
                   fault |-> FALSE, follows |-> "other"]

NextSchema == ConstructProject

SpecSchema == InitSchema /\ [][NextSchema]_vars

(***************************************************************************)
(* Properties.                                                             *)
(***************************************************************************)
\* The documents a seeded collection holds: its samples, in order.
Seeded(c) == [i \in 1..Len(Samples(c)) |-> SampleDocument(c, i)]

IsPrefix(xs, ys) == Len(xs) <= Len(ys) /\ xs = SubSeq(ys, 1, Len(xs))

ContentUnchanged == \A c \in ContentCollections : store[c] = prev[c]

\* C1: a POST /seed that comes right after a POST /seed which succeeded
\* leaves the project, publication and blogpost collections as that first
\* call left them: it inserts no document.
SeedTwiceInsertsNothing ==
    (last.endpoint = "seed" /\ last.follows = "seed_ok") => ContentUnchanged

SeedTwiceWitness ==
    /\ last.endpoint = "seed"
    /\ last.follows = "seed_ok"
    /\ last.status = OK
    /\ \A c \in ContentCollections : Bodies(store[c]) = Seeded(c)

\* C2: POST /contact with a valid payload, the handle set and the store
\* answering, returns {status: "received"}, appends exactly one document to
\* contactmessage (the message, with source defaulting to None) and leaves
\* the three content collections alone.
ContactReceived ==
    (/\ last.endpoint = "contact"
     /\ ValidContactMessage(last.request)
     /\ db = "set"
     /\ ~last.fault)
        => /\ last.status = OK
           /\ last.body = [status |-> "received"]
           /\ Len(store["contactmessage"]) = Len(prev["contactmessage"]) + 1
           /\ IsPrefix(prev["contactmessage"], store["contactmessage"])
           /\ LET new == store["contactmessage"][Len(store["contactmessage"])]
              IN  /\ new.name = last.request.name
                  /\ new.email = last.request.email
                  /\ new.message = last.request.message
                  /\ new.source = None
           /\ ContentUnchanged

ContactReceivedWitness ==
    /\ last.endpoint = "contact"
    /\ last.status = OK
    /\ Len(store["contactmessage"]) = 1
    /\ store["project"] # <<>>

\* C3: with no store handle, POST /seed and POST /contact never answer with
\* success and persist nothing; every such call that reaches its handler (every
\* POST /seed, and every POST /contact whose payload passed validation) ends
\* in the server error whose detail is "Database not configured".
WritesNeedStore ==
    (db = "none" /\ last.endpoint \in {"seed", "contact"})
        => /\ last.status # OK
           /\ store = prev
           /\ store = EmptyStore
           /\ (last.endpoint = "seed" \/ ValidContactMessage(last.request))
                  => /\ last.status = SERVER_ERROR
                     /\ last.body = [detail |-> "Database not configured"]

WritesNeedStoreWitness ==
    /\ db = "none"
    /\ last.endpoint = "contact"
    /\ ValidContactMessage(last.request)
    /\ last.status = SERVER_ERROR

\* C4: with no store handle, GET /projects (whatever domain, year and q),
\* GET /publications and GET /blog answer successfully with the empty list
\* and issue no store operation.
ListsDegradeToEmpty ==
    (db = "none" /\ last.endpoint \in {"projects", "publications", "blog"})
        => /\ last.status = OK
           /\ last.ops = 0
           /\ last.body = <<>>
           /\ store = prev

ListsDegradeWitness ==
    /\ db = "none"
    /\ last.endpoint = "projects"
    /\ last.request.domain # None
    /\ last.request.year # None
    /\ last.request.q # None
    /\ last.status = OK

\* The filter as the claim words it: a parameter that is given always counts,
\* and q is looked for as a plain substring, case ignored.
ContainsFolded(q, s) ==
    LET qc == Chars(q, TRUE)
        sc == Chars(s, TRUE)
    IN  \E i \in 1..(Len(sc) - Len(qc) + 1) : SubSeq(sc, i, i + Len(qc) - 1) = qc

SatisfiesRequest(d, r) ==
    /\ r.domain # None => d.domain = r.domain[1]
    /\ r.year # None => d.year = r.year[1]
    /\ r.q # None =>
           \/ ContainsFolded(r.q[1], d.title)
           \/ ContainsFolded(r.q[1], d.summary)
           \/ \E j \in 1..Len(d.tags) : ContainsFolded(r.q[1], d.tags[j])

\* C5: with the store available, what GET /projects returns is exactly the
\* stored projects, without their identifiers, whose domain equals the domain
\* parameter when given, whose year equals the year parameter when given, and
\* whose title, summary or some tag contains q (case ignored) when given, for
\* every value of the parameters.
ProjectsFilteredAsGiven ==
    (last.endpoint = "projects" /\ db = "set" /\ last.status = OK)
        => last.body =
               Bodies(SelectSeq(store["project"],
                                LAMBDA d : SatisfiesRequest(d, last.request)))

\* C6: GET /test always answers with its status object; the collections it
\* lists are at most 10; with no store handle it reports the database as not
\* connected and not working, with an empty collections list.
TestNeverRaises ==
    last.endpoint = "test"
        => /\ last.status = OK
           /\ last.body.backend = "Running"
           /\ Len(last.body.collections) <= 10
           /\ db = "none"
                  => /\ last.body.connection_status = "Not Connected"
                     /\ last.body.database # "Connected & Working"
                     /\ last.body.collections = <<>>

TestTruncatesWitness ==
    /\ last.endpoint = "test"
    /\ db = "set"
    /\ ~last.request.listing.raises
    /\ Len(last.request.listing.names) > 10
    /\ Len(last.body.collections) = 10

OtherFieldsValid(p) ==
    /\ ProjectRequired \subseteq DOMAIN p
    /\ OptionalHttpUrl(p, "github_url")
    /\ OptionalHttpUrl(p, "demo_url")

\* C7 as stated: a Project payload whose other fields are valid is accepted
\* if and only if its domain is one of ML, Analytics, Visualization, NLP, CV,
\* TimeSeries, MLOps, Other.
DomainEnumAsStated ==
    (last.status # "pending" /\ OtherFieldsValid(last.request))
        => (last.status = "accepted"
              <=> last.request.domain \in
                      {"ML", "Analytics", "Visualization", "NLP", "CV",
                       "TimeSeries", "MLOps", "Other"})

\* C7 amended: a Project payload whose other fields are valid is accepted if
\* and only if its domain is one of ML, Analytics, Visualization, NLP, CV,
\* Time Series (two words), MLOps, Other.
DomainEnumWithSpace ==
    (last.status # "pending" /\ OtherFieldsValid(last.request))
        => (last.status = "accepted"
              <=> last.request.domain \in
                      {"ML", "Analytics", "Visualization", "NLP", "CV",
                       "Time Series", "MLOps", "Other"})

DomainEnumWitness ==
    /\ last.status = "accepted"
    /\ last.request.domain = "Time Series"
    /\ last.body # None

\* C8: one POST /seed with the handle set treats the three content
\* collections independently.  A collection that is not empty is left as it
\* is, whatever the state of the other two, and contactmessage is never
\* touched; when the store answers every operation, a collection that is
\* empty receives exactly its sample set (3 projects, 2 publications, 4 blog
\* posts), so the samples are inserted if and only if it was empty.
SeedPerCollection ==
    (last.endpoint = "seed" /\ db = "set")
        => /\ store["contactmessage"] = prev["contactmessage"]
           /\ \A c \in ContentCollections : prev[c] # <<>> => store[c] = prev[c]
           /\ ~last.fault =>
                  /\ last.status = OK
                  /\ \A c \in ContentCollections :
                         prev[c] = <<>> => Bodies(store[c]) = Seeded(c)
                  /\ prev["project"] = <<>> => Len(store["project"]) = 3
                  /\ prev["publication"] = <<>> => Len(store["publication"]) = 2
                  /\ prev["blogpost"] = <<>> => Len(store["blogpost"]) = 4

SeedPerCollectionWitness ==
    /\ last.endpoint = "seed"
    /\ last.status = OK
    /\ prev["project"] # <<>>
    /\ Len(store["project"]) < 3
    /\ prev["publication"] = <<>>
    /\ Len(store["publication"]) = 2
    /\ prev["blogpost"] = <<>>
    /\ Len(store["contactmessage"]) = 1

BothFoundEmpty(c) ==
    \A w \in Workers : inflight[w].status = "ok" /\ c \in inflight[w].seen

\* C9: when two POST /seed invocations in flight together have both found a
\* collection empty (both counted it before either inserted) and both run to
\* their success response, that collection holds its sample set twice.
SeedRaceDuplicates ==
    \A c \in ContentCollections :
        BothFoundEmpty(c) => Len(store[c]) = 2 * Len(Samples(c))

SeedRaceWitness ==
    /\ BothFoundEmpty("project")
    /\ Len(store["project"]) = 6
    /\ \E i, j \in 1..6 :
           i # j /\ WithoutId(store["project"][i]) = WithoutId(store["project"][j])

\* C10 as stated: a call that ends in an error leaves every collection as it
\* was before the call.
FailedCallChangesNothing == last.status # OK => store = prev

\* C10 amended: a call that ends in an error removes and alters nothing, and
\* changes no collection at all unless it is a POST /seed whose store
\* operation failed after an insert: such a call keeps the samples it had
\* inserted, so each content collection is either unchanged or was empty
\* and now holds a leading part of its sample set (possibly all of it), and
\* contactmessage is unchanged.
FailedCallEffects ==
    last.status # OK
        => /\ store["contactmessage"] = prev["contactmessage"]
           /\ last.endpoint # "seed" => store = prev
           /\ ~last.fault => store = prev
           /\ \A c \in ContentCollections :
                  \/ store[c] = prev[c]
                  \/ prev[c] = <<>> /\ IsPrefix(Bodies(store[c]), Seeded(c))

FailedSeedPartialWitness ==
    /\ last.endpoint = "seed"
    /\ last.status = SERVER_ERROR
    /\ prev["project"] = <<>>
    /\ Len(store["project"]) = 2
    /\ store["publication"] = <<>>

====
